---- MODULE Spec2Model ----
(***************************************************************************)
(* The session flow controller of the revision tutor:                      *)
(* LangGraphRevisionAgent (backend/core/revision_agents.py) over the       *)
(* session store (backend/core/mongodb_client.py).                         *)
(*                                                                         *)
(* A caller (an HTTP request or a websocket connection) runs one call at a *)
(* time: start_revision_session or handle_user_input.  Both are coroutines *)
(* that suspend in the Generation Service; the store is read when a turn   *)
(* begins and written when it ends, so a call is two steps: Begin (load,   *)
(* up to the first suspension) and Finish (the rest, and the save).  A call*)
(* that never reaches the Generation Service runs in one step.             *)
(*                                                                         *)
(* Scores are tenths, rounded down: 6 is 0.6 and so is 0.65.  The program  *)
(* compares a score with 0.6 only, and the range [0.0, 1.0] is 0..10.      *)
(***************************************************************************)
EXTENDS Integers, Sequences, FiniteSets, TLC

\* ---------------------------------------------------------------- bounds
MaxSubtopics == 2           \* topics have 0..MaxSubtopics sub-topics
MaxOps == 4                 \* calls completed in one behaviour
MaxReplyLen == 3            \* characters in a reply to the scoring prompt
MaxCount == 17              \* interactions of one auto-quiz session

Sessions == {1, 2}          \* session ids
Callers == {1, 2}           \* requests and connections that can be open at once

\* ------------------------------------------------------- program constants
ExplanationSteps == 3
PassThreshold == 6
NeutralScore == 5
MinConversations == 8
MaxConversations == 50

FallbackMessage == "I'm having trouble responding right now. Let's continue."
NoContentMessage == "Sorry, no content found for this topic."
NotFoundMessage == "Session not found."
None == "None"

\* -------------------------------------------------------- content provider
\* A topic is named by the number of its sub-topics; the title of its i-th
\* sub-topic is i.  The list of a topic never changes.
Topics == 0..MaxSubtopics

ListSubtopics(topic) == [i \in 1..topic |-> i]

\* ------------------------------------------------------------- user texts
\* A user text, by what _is_user_asking_question reads of it: whether it is
\* there at all (None and "" are not), the number of its words, and whether it
\* contains one of the question indicators.  stop: the text expresses the
\* intent to end the session (nothing in the controller reads it).
NoText == [present |-> FALSE, words |-> 0, indicator |-> FALSE, stop |-> FALSE]
\* "photosynthesis"
ShortAnswer == [present |-> TRUE, words |-> 1, indicator |-> FALSE, stop |-> FALSE]
\* "I want to stop"
StopText == [present |-> TRUE, words |-> 4, indicator |-> FALSE, stop |-> TRUE]
\* "why do plants need sunlight?"
ShortQuestion == [present |-> TRUE, words |-> 5, indicator |-> TRUE, stop |-> FALSE]
\* "can you explain what chlorophyll does"
LongQuestion == [present |-> TRUE, words |-> 6, indicator |-> TRUE, stop |-> FALSE]
\* "plants make their food using sunlight and water"
LongAnswer == [present |-> TRUE, words |-> 8, indicator |-> FALSE, stop |-> FALSE]

UserTexts == {NoText, ShortAnswer, StopText, ShortQuestion, LongQuestion, LongAnswer}

\* ------------------------------------------------------ generation service
\* What the service does during one call: it answers, or it raises.
\* A reply to the scoring prompt is a sequence of characters; "x" is any
\* character that is neither a digit nor the point.
Digits == {"0", "1", "3", "6", "7"}

ReplyChars == Digits \cup {".", "x"}

Replies == UNION {[1..n -> ReplyChars] : n \in 0..MaxReplyLen}

\* The replies of the service in a turn: "0.3", "0.6", and a word.
ScoreReplies == {<<"0", ".", "3">>, <<"0", ".", "6">>, <<"x">>}

VARIABLES
    db,         \* revision_sessions: session_id -> record, or NoRecord
    pc,         \* per caller: "idle", "starting", "continuing"
    local,      \* per caller: the call in flight (its arguments and its state)
    last,       \* the call that completed last, until the next begins: arguments,
                \* loaded and computed state, result
    explTurns,  \* per session: turns so far that explained the current sub-topic
    nops        \* calls completed

vars == <<db, pc, local, last, explTurns, nops>>

NoRecord == [exists |-> FALSE]
NoCall == [op |-> "none"]

\* ----------------------------------------------------------- agent: helpers

\* _generate_response: the service's text, or the fallback when it raises.
\* As GenerateResponse, but a failure of the service is not caught: the node
\* is left without a reply.
GenerateResponse_NoFallback(up) == IF up THEN "generated" ELSE ""

GenerateResponse(up) == IF up THEN "generated" ELSE FallbackMessage

DigitValue(c) ==
    CASE c = "0" -> 0 [] c = "1" -> 1 [] c = "3" -> 3 [] c = "6" -> 6 [] c = "7" -> 7

CharAt(reply, i) == IF i <= Len(reply) THEN reply[i] ELSE "end"

\* The match of 0\.\d+|1\.0|0|1 at position i, as float() reads it in tenths
\* (digits after the first decimal are rounded away), or -1 without a match.
\* The alternatives are tried in their order.
MatchAt(reply, i) ==
    IF CharAt(reply, i) = "0" /\ CharAt(reply, i + 1) = "."
                              /\ CharAt(reply, i + 2) \in Digits
    THEN DigitValue(CharAt(reply, i + 2))
    ELSE IF CharAt(reply, i) = "1" /\ CharAt(reply, i + 1) = "."
                                   /\ CharAt(reply, i + 2) = "0"
    THEN 10
    ELSE IF CharAt(reply, i) = "0" THEN 0
    ELSE IF CharAt(reply, i) = "1" THEN 10
    ELSE -1

\* re.search: the match at the leftmost position that has one.
RECURSIVE Search(_, _)
Search(reply, i) ==
    IF i > Len(reply) THEN -1
    ELSE IF MatchAt(reply, i) # -1 THEN MatchAt(reply, i)
    ELSE Search(reply, i + 1)

\* As ScoreAnswer, but the number is read by \d(\.\d+)?: the first number of
\* the reply, whatever its value.
ScoreAnswer_FirstNumber(up, reply) ==
    IF ~up THEN NeutralScore
    ELSE LET at == {i \in 1..Len(reply) : reply[i] \in Digits}
         IN IF at = {} THEN NeutralScore
            ELSE LET i == CHOOSE j \in at : \A k \in at : j <= k
                 IN IF CharAt(reply, i + 1) = "." /\ CharAt(reply, i + 2) \in Digits
                    THEN 10 * DigitValue(reply[i]) + DigitValue(reply[i + 2])
                    ELSE 10 * DigitValue(reply[i])

\* _score_answer: the number the pattern finds in the reply, 0.5 without one
\* or when the service raises.
ScoreAnswer(up, reply) ==
    IF ~up THEN NeutralScore
    ELSE IF Search(reply, 1) # -1 THEN Search(reply, 1)
    ELSE NeutralScore

\* _is_user_asking_question
\* As IsUserAskingQuestion, but while a check question is pending every text
\* counts as an answer.
IsUserAskingQuestion_AnyLength(user_input, state) ==
    IF ~user_input.present THEN FALSE
    ELSE IF state.waiting_for_answer THEN FALSE
    ELSE user_input.indicator

\* As IsUserAskingQuestion, but a pending check question is not looked at.
IsUserAskingQuestion_IgnoresWaiting(user_input, state) ==
    IF ~user_input.present THEN FALSE
    ELSE user_input.indicator

IsUserAskingQuestion(user_input, state) ==
    IF ~user_input.present THEN FALSE
    ELSE IF state.waiting_for_answer /\ user_input.words <= 5 THEN FALSE
    ELSE user_input.indicator

Truthy(text) == text # None /\ text # ""

NumSubtopics(state) == Len(ListSubtopics(state.topic))

\* state["subtopics"][state["current_subtopic_index"]]: a Python subscript
\* counts a negative index from the end and raises IndexError out of range.
IndexError(state) ==
    \/ state.current_subtopic_index >= NumSubtopics(state)
    \/ state.current_subtopic_index < -NumSubtopics(state)

CurrentSubtopic(state) ==
    LET i == state.current_subtopic_index
    IN ListSubtopics(state.topic)[(IF i < 0 THEN i + NumSubtopics(state) ELSE i) + 1]

\* An exception leaves the call at once: nothing after it runs, nothing is saved.
Raise(state) == [state EXCEPT !.trace = @ \cup {"IndexError"}]

Raised(state) == "IndexError" \in state.trace

\* As SaveSessionState, but the cursor is stored 1-based, as in "sources".
SaveSessionState_OneBased(state) ==
    [topic |-> state.topic,
     current_subtopic_index |-> state.current_subtopic_index + 1,
     current_message_step |-> state.current_message_step,
     concepts_learned |-> state.concepts_learned,
     concept_scores |-> state.concept_scores,
     total_interactions |-> state.total_interactions,
     waiting_for_answer |-> state.waiting_for_answer,
     current_question |-> state.current_question,
     session_complete |-> state.session_complete,
     stage |-> state.stage]

\* As SaveSessionState, but the completion of the session is not written.
SaveSessionState_DropsComplete(state) ==
    [topic |-> state.topic,
     current_subtopic_index |-> state.current_subtopic_index,
     current_message_step |-> state.current_message_step,
     concepts_learned |-> state.concepts_learned,
     concept_scores |-> state.concept_scores,
     total_interactions |-> state.total_interactions,
     waiting_for_answer |-> state.waiting_for_answer,
     current_question |-> state.current_question,
     session_complete |-> FALSE,
     stage |-> state.stage]

\* _save_session_state: the fields written to the store.
SaveSessionState(state) ==
    [topic |-> state.topic,
     current_subtopic_index |-> state.current_subtopic_index,
     current_message_step |-> state.current_message_step,
     concepts_learned |-> state.concepts_learned,
     concept_scores |-> state.concept_scores,
     total_interactions |-> state.total_interactions,
     waiting_for_answer |-> state.waiting_for_answer,
     current_question |-> state.current_question,
     session_complete |-> state.session_complete,
     stage |-> state.stage]

\* As LoadSessionState, but the explanation step starts over.
LoadSessionState_FreshStep(session_data, user_input) ==
    [topic |-> session_data.topic,
     current_subtopic_index |-> session_data.current_subtopic_index,
     current_message_step |-> 0,
     concepts_learned |-> session_data.concepts_learned,
     concept_scores |-> session_data.concept_scores,
     total_interactions |-> session_data.total_interactions,
     user_input |-> user_input,
     last_ai_response |-> "",
     waiting_for_answer |-> session_data.waiting_for_answer,
     current_question |-> session_data.current_question,
     session_complete |-> session_data.session_complete,
     stage |-> session_data.stage,
     trace |-> {}]

\* _load_session_state: last_ai_response is not among the stored fields.
LoadSessionState(session_data, user_input) ==
    [topic |-> session_data.topic,
     current_subtopic_index |-> session_data.current_subtopic_index,
     current_message_step |-> session_data.current_message_step,
     concepts_learned |-> session_data.concepts_learned,
     concept_scores |-> session_data.concept_scores,
     total_interactions |-> session_data.total_interactions,
     user_input |-> user_input,
     last_ai_response |-> "",
     waiting_for_answer |-> session_data.waiting_for_answer,
     current_question |-> session_data.current_question,
     session_complete |-> session_data.session_complete,
     stage |-> session_data.stage,
     trace |-> {}]           \* what the call has done so far (not program state)

\* start_revision_session: the initial state handed to the graph.
InitialState(topic) ==
    [topic |-> topic,
     current_subtopic_index |-> 0,
     current_message_step |-> 0,
     concepts_learned |-> <<>>,
     concept_scores |-> <<>>,
     total_interactions |-> 0,
     user_input |-> NoText,
     last_ai_response |-> None,
     waiting_for_answer |-> FALSE,
     current_question |-> None,
     session_complete |-> FALSE,
     stage |-> "intro",
     trace |-> {}]

\* ------------------------------------------------------- agent: graph nodes
\* Each node takes the state and whether the Generation Service answers (up).

InitializeSession(state) ==
    [state EXCEPT !.total_interactions = 0, !.stage = "intro"]

TopicIntroduction(state, up) ==
    [state EXCEPT !.last_ai_response = GenerateResponse(up),
                  !.total_interactions = @ + 1]

StartConceptExplanation(state, up) ==
    IF state.current_subtopic_index >= NumSubtopics(state)
    THEN [state EXCEPT !.session_complete = TRUE]
    ELSE IF IndexError(state) THEN Raise(state)
    ELSE [state EXCEPT !.current_message_step = 1,
                       !.stage = "learning",
                       !.last_ai_response = GenerateResponse(up),
                       !.total_interactions = @ + 1,
                       !.trace = @ \cup {"explained"}]

ContinueExplanation(state, up) ==
    IF state.current_subtopic_index >= NumSubtopics(state)
    THEN [state EXCEPT !.session_complete = TRUE]
    ELSE IF IndexError(state) THEN Raise(state)
    ELSE IF state.current_message_step + 1 <= ExplanationSteps
    THEN [state EXCEPT !.current_message_step = @ + 1,
                       !.last_ai_response = GenerateResponse(up),
                       !.total_interactions = @ + 1,
                       !.trace = @ \cup {"explained"}]
    ELSE [state EXCEPT !.current_message_step = @ + 1,
                       !.stage = "question"]

\* As AskCheckQuestion, but the question is not recorded.
AskCheckQuestion_NotRecorded(state, up) ==
    IF state.current_subtopic_index >= NumSubtopics(state)
    THEN [state EXCEPT !.session_complete = TRUE]
    ELSE IF IndexError(state) THEN Raise(state)
    ELSE [state EXCEPT !.last_ai_response = GenerateResponse(up),
                       !.waiting_for_answer = TRUE,
                       !.stage = "question",
                       !.total_interactions = @ + 1,
                       !.trace = @ \cup {"asked"}]

AskCheckQuestion(state, up) ==
    IF state.current_subtopic_index >= NumSubtopics(state)
    THEN [state EXCEPT !.session_complete = TRUE]
    ELSE IF IndexError(state) THEN Raise(state)
    ELSE [state EXCEPT !.last_ai_response = GenerateResponse(up),
                       !.current_question = GenerateResponse(up),
                       !.waiting_for_answer = TRUE,
                       !.stage = "question",
                       !.total_interactions = @ + 1,
                       !.trace = @ \cup {"asked"}]

EvaluateAnswer(state, up, reply) ==
    IF ~state.user_input.present \/ ~Truthy(state.current_question)
    THEN state
    ELSE IF IndexError(state) THEN Raise(state)
    ELSE [state EXCEPT !.concept_scores = Append(@, ScoreAnswer(up, reply)),
                       !.waiting_for_answer = FALSE,
                       !.stage = "feedback",
                       !.trace = @ \cup {"scored"}]

InSeq(x, seq) == \E i \in 1..Len(seq) : seq[i] = x

\* As GiveFeedback, but the concept is marked learned whatever the score.
GiveFeedback_AlwaysLearned(state, up) ==
    IF state.concept_scores = <<>>
    THEN state
    ELSE IF IndexError(state) THEN Raise(state)
    ELSE LET concept_name == CurrentSubtopic(state)
         IN [state EXCEPT
                !.last_ai_response = GenerateResponse(up),
                !.total_interactions = @ + 1,
                !.trace = @ \cup {"feedback"},
                !.concepts_learned =
                    IF ~InSeq(concept_name, @) THEN Append(@, concept_name) ELSE @]

GiveFeedback(state, up) ==
    IF state.concept_scores = <<>>
    THEN state
    ELSE IF IndexError(state) THEN Raise(state)
    ELSE LET current_score == state.concept_scores[Len(state.concept_scores)]
             concept_name == CurrentSubtopic(state)
         IN [state EXCEPT
                !.last_ai_response = GenerateResponse(up),
                !.total_interactions = @ + 1,
                !.trace = @ \cup {"feedback"},
                !.concepts_learned =
                    IF current_score >= PassThreshold /\ ~InSeq(concept_name, @)
                    THEN Append(@, concept_name) ELSE @]

MoveToNextConcept(state) ==
    LET next == state.current_subtopic_index + 1
    IN [state EXCEPT
           !.current_subtopic_index = next,
           !.current_message_step = 0,
           !.current_question = None,
           !.user_input = NoText,
           !.session_complete = IF next >= NumSubtopics(state) THEN TRUE ELSE @,
           !.stage = IF next >= NumSubtopics(state) THEN "complete" ELSE "learning",
           !.trace = (@ \ {"explained"}) \cup {"moved"}]

\* As HandleUserQuestion, but the stage is not set back to learning.
HandleUserQuestion_KeepsStage(state, up) ==
    IF state.current_subtopic_index < -NumSubtopics(state) THEN Raise(state) ELSE
    [state EXCEPT !.last_ai_response = GenerateResponse(up),
                  !.total_interactions = @ + 1,
                  !.trace = @ \cup {"side_question"}]

\* As HandleUserQuestion, but the pending check question is dropped.
HandleUserQuestion_DropsQuestion(state, up) ==
    IF state.current_subtopic_index < -NumSubtopics(state) THEN Raise(state) ELSE
    [state EXCEPT !.last_ai_response = GenerateResponse(up),
                  !.total_interactions = @ + 1,
                  !.stage = "learning",
                  !.waiting_for_answer = FALSE,
                  !.current_question = None,
                  !.trace = @ \cup {"side_question"}]

\* As HandleUserQuestion, but the return to learning also reopens the session.
HandleUserQuestion_Reopens(state, up) ==
    IF state.current_subtopic_index < -NumSubtopics(state) THEN Raise(state) ELSE
    [state EXCEPT !.last_ai_response = GenerateResponse(up),
                  !.total_interactions = @ + 1,
                  !.stage = "learning",
                  !.session_complete = FALSE,
                  !.trace = @ \cup {"side_question"}]

\* As HandleUserQuestion, but the return to learning also rewinds the cursor.
HandleUserQuestion_Rewinds(state, up) ==
    IF state.current_subtopic_index < -NumSubtopics(state) THEN Raise(state) ELSE
    [state EXCEPT !.last_ai_response = GenerateResponse(up),
                  !.total_interactions = @ + 1,
                  !.stage = "learning",
                  !.current_subtopic_index = 0,
                  !.trace = @ \cup {"side_question"}]

HandleUserQuestion(state, up) ==
    IF state.current_subtopic_index < -NumSubtopics(state) THEN Raise(state) ELSE
    [state EXCEPT !.last_ai_response = GenerateResponse(up),
                  !.total_interactions = @ + 1,
                  !.stage = "learning",
                  !.trace = @ \cup {"side_question"}]

SessionSummary(state, up) ==
    [state EXCEPT !.last_ai_response = GenerateResponse(up),
                  !.session_complete = TRUE,
                  !.stage = "complete",
                  !.total_interactions = @ + 1,
                  !.trace = @ \cup {"summary"}]

\* ----------------------------------------------------- agent: graph routing
RouteAfterIntro(state) ==
    IF NumSubtopics(state) = 0 THEN "session_summary" ELSE "start_concept_explanation"

RouteExplanation(state) ==
    IF state.current_message_step < ExplanationSteps
    THEN "continue_explanation" ELSE "ask_check_question"

RouteAfterFeedback(state) ==
    IF state.current_subtopic_index >= NumSubtopics(state) - 1
    THEN "session_summary" ELSE "move_to_next_concept"

RouteNextConcept(state) ==
    IF state.session_complete THEN "session_summary" ELSE "start_concept_explanation"

\* _build_graph: the node run at a position of the graph, and the edge taken
\* from it.  The graph is compiled without interrupts: ainvoke runs from START
\* to END, with user_input None throughout.
RunNode(node, state, up) ==
    CASE node = "initialize_session" -> InitializeSession(state)
      [] node = "topic_introduction" -> TopicIntroduction(state, up)
      [] node = "start_concept_explanation" -> StartConceptExplanation(state, up)
      [] node = "continue_explanation" -> ContinueExplanation(state, up)
      [] node = "ask_check_question" -> AskCheckQuestion(state, up)
      [] node = "evaluate_answer" -> EvaluateAnswer(state, up, <<>>)
      [] node = "give_feedback" -> GiveFeedback(state, up)
      [] node = "move_to_next_concept" -> MoveToNextConcept(state)
      [] node = "session_summary" -> SessionSummary(state, up)

\* As NextNode, but the run stops once a check question has been asked, as a
\* graph compiled with an interrupt after that node does.
NextNode_PausesAtQuestion(node, state) ==
    CASE node = "initialize_session" -> "topic_introduction"
      [] node = "topic_introduction" -> RouteAfterIntro(state)
      [] node = "start_concept_explanation" -> RouteExplanation(state)
      [] node = "continue_explanation" -> RouteExplanation(state)
      [] node = "ask_check_question" -> "END"
      [] node = "evaluate_answer" -> "give_feedback"
      [] node = "give_feedback" -> RouteAfterFeedback(state)
      [] node = "move_to_next_concept" -> RouteNextConcept(state)
      [] node = "session_summary" -> "END"

NextNode(node, state) ==
    CASE node = "initialize_session" -> "topic_introduction"
      [] node = "topic_introduction" -> RouteAfterIntro(state)
      [] node = "start_concept_explanation" -> RouteExplanation(state)
      [] node = "continue_explanation" -> RouteExplanation(state)
      [] node = "ask_check_question" -> "evaluate_answer"
      [] node = "evaluate_answer" -> "give_feedback"
      [] node = "give_feedback" -> RouteAfterFeedback(state)
      [] node = "move_to_next_concept" -> RouteNextConcept(state)
      [] node = "session_summary" -> "END"

RECURSIVE RunGraphFrom(_, _, _)
RunGraphFrom(node, state, up) ==
    IF node = "END" \/ Raised(state) THEN state
    ELSE LET result == RunNode(node, state, up)
         IN RunGraphFrom(NextNode(node, result), result, up)

RunGraph(state, up) == RunGraphFrom("initialize_session", state, up)

\* ------------------------------------------------ agent: handle_user_input
\* The body of handle_user_input between the load and the save.
HandleUserInput(state, user_query, up, reply) ==
    IF IsUserAskingQuestion(user_query, state)
    THEN HandleUserQuestion([state EXCEPT !.stage = "user_question"], up)
    ELSE IF state.waiting_for_answer /\ Truthy(state.current_question)
    THEN LET evaluated == EvaluateAnswer([state EXCEPT !.user_input = user_query], up, reply)
             result == IF Raised(evaluated) THEN evaluated ELSE GiveFeedback(evaluated, up)
         IN IF Raised(result) THEN result
            ELSE IF result.current_subtopic_index < NumSubtopics(result) - 1
            THEN LET moved == MoveToNextConcept(result)
                 IN IF ~moved.session_complete
                    THEN StartConceptExplanation(moved, up) ELSE moved
            ELSE SessionSummary([result EXCEPT !.session_complete = TRUE], up)
    ELSE IF state.stage = "learning"
    THEN LET result == ContinueExplanation(state, up)
         IN IF result.stage = "question" /\ ~Raised(result)
            THEN AskCheckQuestion(result, up) ELSE result
    ELSE ContinueExplanation(state, up)

\* Whether handle_user_input reaches the Generation Service, and so suspends,
\* between its load and its save.
Suspends(state, user_query) ==
    IF IsUserAskingQuestion(user_query, state) THEN TRUE
    ELSE IF state.waiting_for_answer /\ Truthy(state.current_question)
    THEN \/ user_query.present
         \/ state.concept_scores # <<>>
         \/ state.current_subtopic_index >= NumSubtopics(state) - 1
         \/ ~state.session_complete
    ELSE /\ state.current_subtopic_index < NumSubtopics(state)
         /\ \/ state.current_message_step + 1 <= ExplanationSteps
            \/ state.stage = "learning"

\* The dict handle_user_input and start_revision_session return.
Result(state) ==
    [response |-> state.last_ai_response,
     conversation_count |-> state.total_interactions,
     is_session_complete |-> state.session_complete,
     current_stage |-> state.stage]

\* The RevisionResponse the start endpoint builds from that dict.
StartResponse(result) ==
    [response |-> result.response,
     conversation_count |-> 0,
     is_session_complete |-> result.is_session_complete]

\* The progress of a session, as a state in memory or a stored record holds it.
Progress(state) ==
    [stage |-> state.stage,
     current_subtopic_index |-> state.current_subtopic_index,
     current_message_step |-> state.current_message_step,
     concepts_learned |-> state.concepts_learned,
     concept_scores |-> state.concept_scores,
     waiting_for_answer |-> state.waiting_for_answer,
     current_question |-> state.current_question,
     session_complete |-> state.session_complete]

\* ------------------------------------------------------------------ store
\* As SaveRevisionSession, but the update is not filtered by session_id: it
\* reaches every record of the collection.
SaveRevisionSession_NoFilter(store, session_id, state, ok) ==
    IF ok
    THEN [s \in DOMAIN store |->
            IF s = session_id \/ store[s] # NoRecord
            THEN SaveSessionState(state) ELSE store[s]]
    ELSE store

\* save_revision_session: an upsert of the whole record by session_id; a
\* failed write is logged and leaves the store as it was.
SaveRevisionSession(store, session_id, state, ok) ==
    IF ok THEN [store EXCEPT ![session_id] = SaveSessionState(state)] ELSE store

\* get_revision_session
GetRevisionSession(store, session_id) == store[session_id]

\* Turns that explained the current sub-topic, after a call with this trace.
ExplainedTurns(before, trace) ==
    IF "moved" \in trace THEN (IF "explained" \in trace THEN 1 ELSE 0)
    ELSE IF "explained" \in trace THEN before + 1
    ELSE before

InFlight == {w \in Callers : pc[w] # "idle"}

\* The environment of one call: whether the Generation Service answers (up)
\* and whether the store takes the write (ok).
Environments == [up : BOOLEAN, ok : BOOLEAN]

\* Callers are interchangeable, and so are unused session ids: the calls in
\* flight are held in the order they began, the next call takes the first
\* free place, and a session id is first used when the ids before it are in
\* use.
\* The places after the call at place w has ended.
Release(f, w, free) ==
    [v \in Callers |-> IF v < w THEN f[v]
                       ELSE IF v + 1 \in Callers THEN f[v + 1] ELSE free]

MayBegin(w) ==
    /\ pc[w] = "idle"
    /\ \A v \in Callers : v < w => pc[v] # "idle"
    /\ nops + Cardinality(InFlight) < MaxOps

\* ---------------------------------------------------------------- actions
Init ==
    /\ db = [s \in Sessions |-> NoRecord]
    /\ pc = [w \in Callers |-> "idle"]
    /\ local = [w \in Callers |-> NoCall]
    /\ last = NoCall
    /\ explTurns = [s \in Sessions |-> 0]
    /\ nops = 0

\* Session ids are unique: a session is started under an id no session has.
Unused(session_id) ==
    /\ db[session_id] = NoRecord
    /\ \A v \in Callers : pc[v] = "starting" => local[v].session_id # session_id

\* start_revision_session, to its first suspension.  A topic without
\* sub-topics is answered at once, and nothing is stored.
StartBegin(w, session_id, topic) ==
    /\ MayBegin(w)
    /\ Unused(session_id)
    /\ \A s \in Sessions : s < session_id => db[s] # NoRecord
    /\ IF ListSubtopics(topic) = <<>>
       THEN /\ last' = [op |-> "start", session_id |-> session_id,
                        topic |-> topic, found |-> FALSE, saved |-> FALSE,
                        result |-> [response |-> NoContentMessage,
                                    is_session_complete |-> TRUE,
                                    current_stage |-> "error"]]
            /\ nops' = nops + 1
            /\ UNCHANGED <<pc, local>>
       ELSE /\ pc' = [pc EXCEPT ![w] = "starting"]
            /\ local' = [local EXCEPT ![w] =
                            [op |-> "start", session_id |-> session_id, topic |-> topic]]
            /\ last' = NoCall
            /\ UNCHANGED nops
    /\ UNCHANGED <<db, explTurns>>

\* start_revision_session, from the graph run to the return.
StartFinish(w) ==
    /\ pc[w] = "starting"
    /\ \E e \in Environments :
        LET session_id == local[w].session_id
            result == RunGraph(InitialState(local[w].topic), e.up)
            saved == e.ok /\ ~Raised(result)
        IN /\ db' = SaveRevisionSession(db, session_id, result, saved)
           /\ explTurns' = IF saved THEN [explTurns EXCEPT ![session_id] = 0] ELSE explTurns
           /\ last' = [op |-> "start", session_id |-> session_id,
                       topic |-> local[w].topic, found |-> TRUE, saved |-> saved,
                       raised |-> Raised(result), up |-> e.up,
                       after |-> SaveSessionState(result), trace |-> result.trace,
                       memory |-> Progress(result),
                       result |-> Result(result)]
    /\ pc' = Release(pc, w, "idle")
    /\ local' = Release(local, w, NoCall)
    /\ nops' = nops + 1

\* The end of handle_user_input: the save and the return (or, after an
\* exception, neither).
Complete(w, session_id, user_query, session_data, result, e) ==
    /\ db' = SaveRevisionSession(db, session_id, result, e.ok /\ ~Raised(result))
    /\ explTurns' = IF e.ok /\ ~Raised(result)
                    THEN [explTurns EXCEPT ![session_id] = ExplainedTurns(@, result.trace)]
                    ELSE explTurns
    /\ last' = [op |-> "continue", session_id |-> session_id,
                user_query |-> user_query, found |-> TRUE,
                saved |-> (e.ok /\ ~Raised(result)), raised |-> Raised(result),
                up |-> e.up,
                before |-> session_data, after |-> SaveSessionState(result),
                trace |-> result.trace, explained_before |-> explTurns[session_id],
                memory |-> Progress(result),
                result |-> Result(result)]
    /\ pc' = Release(pc, w, "idle")
    /\ local' = Release(local, w, NoCall)
    /\ nops' = nops + 1

\* As ContinueNotFound, but a record is created for the unknown session.
ContinueNotFound_Upserts(session_id, user_query) ==
    /\ last' = [op |-> "continue", session_id |-> session_id,
                user_query |-> user_query, found |-> FALSE, saved |-> FALSE,
                trace |-> {},
                result |-> [response |-> NotFoundMessage,
                            is_session_complete |-> FALSE]]
    /\ nops' = nops + 1
    /\ db' = [db EXCEPT ![session_id] = SaveSessionState(InitialState(1))]
    /\ UNCHANGED <<pc, local, explTurns>>

\* handle_user_input when the store has no record of the session: it returns
\* at once; nothing is generated (the trace is empty) and nothing is stored.
ContinueNotFound(session_id, user_query) ==
    /\ last' = [op |-> "continue", session_id |-> session_id,
                user_query |-> user_query, found |-> FALSE, saved |-> FALSE,
                trace |-> {},
                result |-> [response |-> NotFoundMessage,
                            is_session_complete |-> FALSE]]
    /\ nops' = nops + 1
    /\ UNCHANGED <<db, pc, local, explTurns>>

\* handle_user_input, to its first suspension: the load, and the whole call
\* when there is no record or no generation on its path.
ContinueBegin(w, session_id, user_query) ==
    /\ MayBegin(w)
    /\ LET session_data == GetRevisionSession(db, session_id)
       IN IF session_data = NoRecord
          THEN ContinueNotFound(session_id, user_query)
          ELSE LET state == LoadSessionState(session_data, user_query)
               IN IF Suspends(state, user_query)
                  THEN /\ pc' = [pc EXCEPT ![w] = "continuing"]
                       /\ local' = [local EXCEPT ![w] =
                                       [op |-> "continue", session_id |-> session_id,
                                        user_query |-> user_query,
                                        session_data |-> session_data, state |-> state]]
                       /\ last' = NoCall
                       /\ UNCHANGED <<db, explTurns, nops>>
                  ELSE \E e \in Environments :
                          /\ e.up
                          /\ Complete(w, session_id, user_query, session_data,
                                      HandleUserInput(state, user_query, TRUE, <<>>), e)

\* The replies the service can give to the scoring prompt of a turn: there is
\* one only when the turn scores an answer and the service answers.
ScoreRepliesOf(state, user_query, up) ==
    IF /\ up
       /\ ~IsUserAskingQuestion(user_query, state)
       /\ state.waiting_for_answer /\ Truthy(state.current_question)
       /\ user_query.present
    THEN ScoreReplies ELSE {<<>>}

\* handle_user_input, from the Generation Service's replies to the return.
ContinueFinish(w) ==
    /\ pc[w] = "continuing"
    /\ \E e \in Environments :
       \E reply \in ScoreRepliesOf(local[w].state, local[w].user_query, e.up) :
          Complete(w, local[w].session_id, local[w].user_query, local[w].session_data,
                   HandleUserInput(local[w].state, local[w].user_query, e.up, reply), e)

\* As Abandon, but what the cancelled turn had reached is written.
Abandon_SavesPartial(w) ==
    /\ pc[w] # "idle"
    /\ pc' = Release(pc, w, "idle")
    /\ local' = Release(local, w, NoCall)
    /\ last' = [op |-> "abandon", call |-> local[w].op,
                session_id |-> local[w].session_id]
    /\ db' = IF local[w].op = "continue"
             THEN SaveRevisionSession(db, local[w].session_id,
                      [local[w].state EXCEPT !.stage = "user_question"], TRUE)
             ELSE db
    /\ UNCHANGED <<explTurns, nops>>

\* The caller goes away while its call is suspended (the connection drops):
\* the coroutine is cancelled and nothing is saved.
Abandon(w) ==
    /\ pc[w] # "idle"
    /\ pc' = Release(pc, w, "idle")
    /\ local' = Release(local, w, NoCall)
    /\ last' = [op |-> "abandon", call |-> local[w].op,
                session_id |-> local[w].session_id]
    /\ UNCHANGED <<db, explTurns, nops>>

\* The calls that can be made on the sessions of S.
NextOn(S) ==
    \/ \E w \in Callers, s \in S, t \in Topics : StartBegin(w, s, t)
    \/ \E w \in Callers : StartFinish(w)
    \/ \E w \in Callers, s \in S, q \in UserTexts : ContinueBegin(w, s, q)
    \/ \E w \in Callers : ContinueFinish(w)
    \/ \E w \in Callers : Abandon(w)

\* One session, with two callers on it.
Next == NextOn({1})

Spec == Init /\ [][Next]_vars

\* One started session whose user never asks a question: turns are taken
\* one after another, with answers or without text, and each is a whole
\* continue call.
ProgressInit ==
    /\ \E t \in Topics \ {0} :
          db = [s \in Sessions |->
                  IF s = 1 THEN SaveSessionState(RunGraph(InitialState(t), TRUE))
                  ELSE NoRecord]
    /\ pc = [w \in Callers |-> "idle"]
    /\ local = [w \in Callers |-> NoCall]
    /\ last = NoCall
    /\ explTurns = [s \in Sessions |-> 0]
    /\ nops = 1

\* A continue call whose text is not classified as a question.
AnswerTurn(session_id, user_query) ==
    /\ nops < MaxOps
    /\ db[session_id] # NoRecord
    /\ LET session_data == GetRevisionSession(db, session_id)
           state == LoadSessionState(session_data, user_query)
       IN /\ ~IsUserAskingQuestion(user_query, state)
          /\ \E e \in Environments :
             \E reply \in ScoreRepliesOf(state, user_query, e.up) :
             \E result \in {HandleUserInput(state, user_query, e.up, reply)} :
                Complete(1, session_id, user_query, session_data, result, e)

ProgressNext == \E q \in UserTexts : AnswerTurn(1, q)

\* Turns are scheduled fairly: a turn that can be taken is taken.
ProgressSpec == ProgressInit /\ [][ProgressNext]_vars /\ WF_vars(ProgressNext)

\* One started session driven turn by turn with any text: nops counts the
\* turns taken since the start, each a whole continue call.
TurnInit ==
    /\ \E t \in Topics \ {0} :
          db = [s \in Sessions |->
                  IF s = 1 THEN SaveSessionState(RunGraph(InitialState(t), TRUE))
                  ELSE NoRecord]
    /\ pc = [w \in Callers |-> "idle"]
    /\ local = [w \in Callers |-> NoCall]
    /\ last = NoCall
    /\ explTurns = [s \in Sessions |-> 0]
    /\ nops = 0

SessionTurn(session_id, user_query) ==
    /\ nops < MaxOps
    /\ db[session_id] # NoRecord
    /\ LET session_data == GetRevisionSession(db, session_id)
           state == LoadSessionState(session_data, user_query)
       IN \E e \in Environments :
          \E reply \in ScoreRepliesOf(state, user_query, e.up) :
          \E result \in {HandleUserInput(state, user_query, e.up, reply)} :
             Complete(1, session_id, user_query, session_data, result, e)

TurnNext == \E q \in UserTexts : SessionTurn(1, q)

TurnSpec == TurnInit /\ [][TurnNext]_vars

\* Two sessions side by side: both have been started, on different topics
\* with content (which tells their records apart), and continue calls for
\* either are made by two callers.
PairInit ==
    /\ \E topic \in [Sessions -> Topics \ {0}] :
          /\ \A s, t \in Sessions : s < t => topic[s] < topic[t]
          /\ db = [s \in Sessions |->
                     SaveSessionState(RunGraph(InitialState(topic[s]), TRUE))]
    /\ pc = [w \in Callers |-> "idle"]
    /\ local = [w \in Callers |-> NoCall]
    /\ last = NoCall
    /\ explTurns = [s \in Sessions |-> 0]
    /\ nops = Cardinality(Sessions)

PairNext ==
    \/ \E w \in Callers, s \in Sessions, q \in UserTexts : ContinueBegin(w, s, q)
    \/ \E w \in Callers : ContinueFinish(w)
    \/ \E w \in Callers : Abandon(w)

PairSpec == PairInit /\ [][PairNext]_vars

\* The streaming channel: revision_websocket on a store that holds one
\* started session.  A connection is accepted, then each inbound text frame
\* is one pass of the loop: the continue call, the message frame, and the
\* session_complete frame when the result says the session is complete.  The
\* frames of one connection are processed one after another.
ChannelInit ==
    /\ \E t \in Topics \ {0} :
          db = [s \in Sessions |->
                  IF s = 1 THEN SaveSessionState(RunGraph(InitialState(t), TRUE))
                  ELSE NoRecord]
    /\ pc = [w \in Callers |-> "idle"]
    /\ local = [w \in Callers |-> NoCall]
    /\ last = NoCall
    /\ explTurns = [s \in Sessions |-> 0]
    /\ nops = 1

\* await websocket.accept()
WebsocketAccept(w, session_id) ==
    /\ pc[w] = "idle"
    /\ \A v \in Callers : v < w => pc[v] # "idle"
    /\ pc' = [pc EXCEPT ![w] = "open"]
    /\ local' = [local EXCEPT ![w] =
                    [op |-> "channel", session_id |-> session_id,
                     message_frames |-> 0, terminal_frames |-> 0]]
    /\ UNCHANGED <<db, last, explTurns, nops>>

\* One pass of the loop in environment e, the service replying reply to a
\* scoring prompt.  An exception of the call closes the connection.
WebsocketPass(w, user_message, e, reply) ==
    /\ pc[w] = "open"
    /\ nops < MaxOps
    /\ LET session_id == local[w].session_id
           session_data == GetRevisionSession(db, session_id)
       IN IF session_data = NoRecord
          THEN /\ last' = [op |-> "frame", session_id |-> session_id,
                            found |-> FALSE, raised |-> FALSE,
                            terminal |-> FALSE,
                            terminal_before |-> local[w].terminal_frames]
               /\ local' = [local EXCEPT ![w].message_frames = @ + 1]
               /\ UNCHANGED <<db, pc, explTurns>>
          ELSE LET state == HandleUserInput(LoadSessionState(session_data, user_message),
                                            user_message, e.up, reply)
                   result == Result(state)
               IN /\ db' = SaveRevisionSession(db, session_id, state,
                                               e.ok /\ ~Raised(state))
                  /\ explTurns' = IF e.ok /\ ~Raised(state)
                                  THEN [explTurns EXCEPT ![session_id] =
                                           ExplainedTurns(@, state.trace)]
                                  ELSE explTurns
                  /\ last' = [op |-> "frame", session_id |-> session_id,
                              found |-> TRUE, raised |-> Raised(state),
                              terminal |-> (~Raised(state) /\ result.is_session_complete),
                              terminal_before |-> local[w].terminal_frames]
                  /\ IF Raised(state)
                     THEN /\ pc' = [pc EXCEPT ![w] = "idle"]
                          /\ local' = [local EXCEPT ![w] = NoCall]
                     ELSE /\ pc' = pc
                          /\ local' = [local EXCEPT
                                ![w].message_frames = @ + 1,
                                ![w].terminal_frames =
                                    IF result.is_session_complete THEN @ + 1 ELSE @]
    /\ nops' = nops + 1

\* An inbound text frame arrives on an open connection and is processed.
WebsocketFrame(w, user_message) ==
    /\ pc[w] = "open"
    /\ \E e \in Environments :
       \E reply \in ScoreRepliesOf(
                     IF db[local[w].session_id] = NoRecord THEN InitialState(0)
                     ELSE LoadSessionState(db[local[w].session_id], user_message),
                     user_message, e.up) :
          WebsocketPass(w, user_message, e, reply)

\* WebSocketDisconnect: the client went away.
WebsocketDisconnect(w) ==
    /\ pc[w] = "open"
    /\ pc' = [pc EXCEPT ![w] = "idle"]
    /\ local' = [local EXCEPT ![w] = NoCall]
    /\ UNCHANGED <<db, last, explTurns, nops>>

ChannelNext ==
    \/ \E w \in {1}, s \in Sessions : WebsocketAccept(w, s)
    \/ \E w \in {1}, user_message \in UserTexts : WebsocketFrame(w, user_message)
    \/ \E w \in {1} : WebsocketDisconnect(w)

ChannelSpec == ChannelInit /\ [][ChannelNext]_vars

\* The auto-quiz flow (Quiz Scheduling Policy).  As QuizDue, but a quiz in
\* progress is not looked at.
QuizDue_NoStageCheck(conversation_count, quiz_frequency, stage, covered) ==
    /\ conversation_count % quiz_frequency = 0
    /\ conversation_count > 2
    /\ covered

\* The trigger condition, evaluated on a turn.
QuizDue(conversation_count, quiz_frequency, stage, covered) ==
    /\ conversation_count % quiz_frequency = 0
    /\ conversation_count > 2
    /\ stage # "quiz"
    /\ covered

\* A session of the auto-quiz flow: quiz_frequency is fixed at session start
\* within the configured bounds.
QuizInit ==
    /\ db = [s \in Sessions |-> NoRecord]
    /\ pc = [w \in Callers |-> "idle"]
    /\ local = [w \in Callers |-> NoCall]
    /\ explTurns = [s \in Sessions |-> 0]
    /\ nops = 0
    /\ \E quiz_frequency \in MinConversations..MaxConversations :
          last = [op |-> "quiz_flow", quiz_frequency |-> quiz_frequency,
                  conversation_count |-> 0, stage |-> "learning",
                  covered |-> FALSE, triggered |-> FALSE, quizzes |-> 0]

\* One turn of the flow: the interaction is counted, it may cover a concept,
\* and a quiz starts when the trigger condition holds.
QuizTurn(covers) ==
    /\ last.conversation_count < MaxCount
    /\ LET conversation_count == last.conversation_count + 1
           covered == last.covered \/ covers
           due == QuizDue(conversation_count, last.quiz_frequency, last.stage, covered)
       IN last' = [last EXCEPT !.conversation_count = conversation_count,
                               !.covered = covered,
                               !.triggered = due,
                               !.stage = IF due THEN "quiz" ELSE @,
                               !.quizzes = IF due THEN @ + 1 ELSE @]
    /\ UNCHANGED <<db, pc, local, explTurns, nops>>

\* The quiz is submitted: the flow goes on in feedback or learning.
QuizSubmit(stage) ==
    /\ last.stage = "quiz"
    /\ last' = [last EXCEPT !.stage = stage, !.triggered = FALSE]
    /\ UNCHANGED <<db, pc, local, explTurns, nops>>

QuizNext ==
    \/ \E covers \in BOOLEAN : QuizTurn(covers)
    \/ \E stage \in {"feedback", "learning"} : QuizSubmit(stage)

QuizSpec == QuizInit /\ [][QuizNext]_vars

\* _score_answer on its own: one scoring call, for every reply of the service.
ScoreCall(up, reply) ==
    /\ last = NoCall
    /\ last' = [op |-> "score", up |-> up, reply |-> reply,
                score |-> ScoreAnswer(up, reply)]
    /\ UNCHANGED <<db, pc, local, explTurns, nops>>

ScoreNext == \E up \in BOOLEAN, reply \in Replies : ScoreCall(up, reply)

ScoreSpec == Init /\ [][ScoreNext]_vars

\* ------------------------------------------------------------ properties
\* The call that completed last was a continue call that found its session
\* and returned.
Turn == last.op = "continue" /\ last.found /\ ~last.raised

\* The call that completed last was a start call on a topic with content.
Started == last.op = "start" /\ last.found /\ ~last.raised

Stored(s) == db[s] # NoRecord

\* C1: at most one turn is in flight per session: a continue call saves over
\* the record it loaded, never over a record another call has written since
\* (which would lose that call's update).
C1_TurnsDoNotInterleave ==
    [][(nops' # nops /\ last'.op = "continue" /\ last'.found /\ last'.saved)
          => db[last'.session_id] = last'.before]_vars

\* C2: completion is one-way: a stored session_complete that is true is never
\* stored as false again.
C2_CompletionIsOneWay ==
    [][\A s \in Sessions :
          (Stored(s) /\ db[s].session_complete)
              => (db'[s] # NoRecord /\ db'[s].session_complete)]_vars

\* C2 witness: a continue turn on a complete session has scored an answer and
\* saved, and the session is still complete.
C2_Witness ==
    /\ Turn /\ last.saved
    /\ last.before.session_complete
    /\ "scored" \in last.trace
    /\ db[last.session_id].session_complete

C4_QuestionClearedWithWaiting ==
    (Turn /\ last.before.waiting_for_answer /\ ~last.after.waiting_for_answer)
        => ~Truthy(last.after.current_question)

\* C5: the stored current_subtopic_index of a session never decreases.
C5_SubtopicIndexNeverDecreases ==
    [][\A s \in Sessions :
          Stored(s) => /\ db'[s] # NoRecord
                       /\ db'[s].current_subtopic_index >= db[s].current_subtopic_index]_vars

\* C5 witness: a continue turn has saved a session whose cursor is past the
\* first sub-topic, and the cursor is where the turn found it.
C5_Witness ==
    /\ Turn /\ last.saved
    /\ last.before.current_subtopic_index > 0
    /\ db[last.session_id].current_subtopic_index = last.before.current_subtopic_index

\* C6: every continue turn on an existing session that returns stores a
\* total_interactions greater than the one it loaded, in every stage.
C6_InteractionsIncrease ==
    (Turn /\ last.saved)
        => last.after.total_interactions > last.before.total_interactions

\* C7: in every stored session state the cursor is within
\* [0, number of sub-topics], and at the number of sub-topics the session is
\* complete.
C7_SubtopicIndexInRange ==
    \A s \in Sessions :
        Stored(s) =>
            /\ 0 <= db[s].current_subtopic_index
            /\ db[s].current_subtopic_index <= NumSubtopics(db[s])
            /\ (db[s].current_subtopic_index = NumSubtopics(db[s])
                    => db[s].session_complete)

\* C7 witness: a continue turn has saved a session of a topic with several
\* sub-topics.
C7_Witness ==
    /\ Turn /\ last.saved
    /\ NumSubtopics(last.after) > 1
    /\ db[last.session_id] = last.after

\* A session the flow has not brought to its complete stage.
NotYetComplete(session_data) == session_data.stage # "complete"

\* C8: a continue turn whose text expresses the intent to stop, on a session
\* not yet complete, ends with stage complete and session_complete true,
\* without scoring the text as an answer and without explaining or asking.
C8_EndIntentCompletes ==
    (Turn /\ last.user_query.stop /\ NotYetComplete(last.before))
        => /\ last.after.stage = "complete"
           /\ last.after.session_complete
           /\ last.after.concept_scores = last.before.concept_scores
           /\ last.trace \cap {"scored", "explained", "asked"} = {}

\* C9: starting a session on a topic with sub-topics yields stage intro, not
\* complete and with no check question asked; the first continue without text
\* then yields stage learning at sub-topic 0, explanation step 1.
C9_StartYieldsIntro ==
    /\ Started => /\ last.result.current_stage = "intro"
                  /\ ~last.result.is_session_complete
                  /\ ~last.after.waiting_for_answer
    /\ (Turn /\ last.before.stage = "intro" /\ ~last.user_query.present)
          => /\ last.after.stage = "learning"
             /\ last.after.current_subtopic_index = 0
             /\ last.after.current_message_step = 1

\* C10: the check question of a sub-topic is asked by the continue turn that
\* follows exactly three explanation turns for that sub-topic, and that turn
\* ends with stage question, waiting_for_answer and a non-empty question.
C10_QuestionAfterThreeExplanations ==
    (Turn /\ "asked" \in last.trace)
        => /\ last.explained_before = ExplanationSteps
           /\ last.after.stage = "question"
           /\ last.after.waiting_for_answer
           /\ Truthy(last.after.current_question)

\* The score the turn that completed last has appended.
LastScore == last.after.concept_scores[Len(last.after.concept_scores)]

\* The turn that completed last scored an answer to a pending check question
\* at or above the pass threshold.
Passed ==
    /\ Turn /\ last.before.waiting_for_answer
    /\ "scored" \in last.trace
    /\ LastScore >= PassThreshold

\* C11: a turn that scores the answer to a pending check question at 0.6 or
\* more ends with stage feedback and the cursor where it was; the turn after
\* it advances the cursor by one and sets stage learning.
C11_FeedbackThenAdvance ==
    /\ Passed => /\ last.after.stage = "feedback"
                 /\ last.after.current_subtopic_index = last.before.current_subtopic_index
    /\ (Turn /\ last.before.stage = "feedback")
          => /\ last.after.stage = "learning"
             /\ last.after.current_subtopic_index = last.before.current_subtopic_index + 1

IsPrefix(s, t) == Len(s) <= Len(t) /\ SubSeq(t, 1, Len(s)) = s

\* The step completes a continue turn on session s that scored an answer and
\* saved.
ScoredTurnOn(s) ==
    /\ nops' # nops
    /\ last'.op = "continue" /\ last'.found /\ last'.saved
    /\ last'.session_id = s
    /\ "scored" \in last'.trace

\* C12: the stored concept_scores of a session is append-only: a turn that
\* evaluates an answer stores it one element longer, and every other step
\* leaves it as it is.
C12_ScoresGrowByOne ==
    [][\A s \in Sessions :
          Stored(s) =>
              /\ db'[s] # NoRecord
              /\ IsPrefix(db[s].concept_scores, db'[s].concept_scores)
              /\ Len(db'[s].concept_scores) =
                    Len(db[s].concept_scores) + (IF ScoredTurnOn(s) THEN 1 ELSE 0)]_vars

\* C13: every score _score_answer returns lies in [0.0, 1.0], whatever the
\* service replies to the scoring prompt (a number out of range, no number,
\* or an error), and so does every score stored.
C13_ScoreInUnitInterval ==
    /\ last.op = "score" => last.score \in 0..10
    /\ \A s \in Sessions :
          Stored(s) => \A i \in 1..Len(db[s].concept_scores) :
                          db[s].concept_scores[i] \in 0..10

\* C13 witness: the service replied "1.7", a number out of range, and the
\* score is 1.0.
C13_Witness ==
    /\ last.op = "score" /\ last.up
    /\ last.reply = <<"1", ".", "7">>
    /\ last.score = 10

Range(seq) == {seq[i] : i \in 1..Len(seq)}

\* The titles the turn that completed last has added to concepts_learned.
Added == Range(last.after.concepts_learned) \ Range(last.before.concepts_learned)

\* C14: a turn adds to concepts_learned only the title of the sub-topic whose
\* check question it evaluated with a score of 0.6 or more, and after such a
\* turn that title is in concepts_learned; a turn that evaluates no answer, or
\* scores it below 0.6, adds nothing.
C14_LearnedIffPassed ==
    Turn =>
        /\ Added \subseteq (IF Passed THEN {CurrentSubtopic(last.before)} ELSE {})
        /\ Passed => InSeq(CurrentSubtopic(last.before), last.after.concepts_learned)

\* C14 witness: a turn has scored an answer at 0.6, saved, and added the title
\* of its sub-topic.
C14_Witness ==
    /\ Passed /\ last.saved
    /\ Added = {CurrentSubtopic(last.before)}
    /\ db[last.session_id].concepts_learned = last.after.concepts_learned

NoDuplicates(seq) == \A i, j \in 1..Len(seq) : seq[i] = seq[j] => i = j

\* C15: the stored concepts_learned of a session is append-only and never
\* holds a title twice.
C15_LearnedAppendOnly ==
    [][\A s \in Sessions :
          Stored(s) =>
              /\ db'[s] # NoRecord
              /\ IsPrefix(db[s].concepts_learned, db'[s].concepts_learned)
              /\ NoDuplicates(db'[s].concepts_learned)]_vars

\* C16: starting a session on a topic without sub-topics returns at once with
\* is_session_complete true, the no-content message and stage complete, and
\* leaves a session state whose cursor is 0.
C16_NoContentCompletes ==
    (last.op = "start" /\ ListSubtopics(last.topic) = <<>>)
        => /\ last.result.is_session_complete
           /\ last.result.response = NoContentMessage
           /\ last.result.current_stage = "complete"
           /\ Stored(last.session_id)
           /\ db[last.session_id].current_subtopic_index = 0

\* C17: a session stored in stage question with an explanation step above
\* the maximum is not brought back to stage learning by a turn, unless that
\* turn evaluated an answer and gave feedback; a question of the user does
\* not do so.
C17_NoRegressionToLearning ==
    (/\ Turn
     /\ last.before.stage = "question"
     /\ last.before.current_message_step > ExplanationSteps
     /\ last.after.stage = "learning")
        => {"scored", "feedback"} \subseteq last.trace

\* C18: what _save_session_state has stored, loaded by _load_session_state
\* with no turn in between, is the progress the saving call held in memory:
\* stage, cursor, explanation step, concepts_learned, concept_scores,
\* waiting_for_answer, current_question and session_complete.
C18_ResumeRoundTrip ==
    ((Started \/ Turn) /\ last.saved)
        => Progress(LoadSessionState(GetRevisionSession(db, last.session_id), NoText))
              = last.memory

\* C18 witness: a turn has saved a state with a score, a learned concept and
\* a question, and the stored record is the one it wrote.
C18_Witness ==
    /\ Turn /\ last.saved
    /\ last.memory.concept_scores # <<>>
    /\ last.memory.concepts_learned # <<>>
    /\ Truthy(last.memory.current_question)
    /\ last.memory.current_message_step > 0
    /\ db[last.session_id] = last.after

\* C19: a continue turn on a session that is complete changes nothing of its
\* progress (stage, cursor, explanation step, waiting_for_answer,
\* current_question, concept_scores, concepts_learned) and produces no
\* summary, explanation or question.
C19_CompleteIsTerminal ==
    (Turn /\ last.before.session_complete /\ last.before.stage = "complete")
        => /\ Progress(last.after) = Progress(last.before)
           /\ last.trace \cap {"summary", "explained", "asked"} = {}

\* C20: a turn that answers a question of the user ends in the stage it found:
\* the stage it stores is the stage it loaded, and never user_question.
C20_SideQuestionReturns ==
    (Turn /\ "side_question" \in last.trace)
        => /\ last.after.stage = last.before.stage
           /\ last.after.stage # "user_question"

\* C21: a continue call for a session the store has no record of reports
\* session not found with is_session_complete false, makes no generation
\* call, and leaves the store as it is.
C21_NotFoundTouchesNothing ==
    [][(nops' # nops /\ last'.op = "continue" /\ ~last'.found)
          => /\ last'.result = [response |-> NotFoundMessage,
                                is_session_complete |-> FALSE]
             /\ last'.trace = {}
             /\ db' = db]_vars

\* C21 witness: a continue call has found no record, and the store still has
\* none for that session.
C21_Witness ==
    /\ last.op = "continue" /\ ~last.found
    /\ ~last.result.is_session_complete
    /\ ~Stored(last.session_id)

\* C22: the store changes only in the step that ends a call, by one write of
\* the whole record the call computed; a call that is abandoned or fails
\* before that leaves the store as it was.
C22_OneWriteAtTheEnd ==
    [][db' # db
          => /\ nops' # nops
             /\ last'.op \in {"start", "continue"}
             /\ last'.found /\ last'.saved /\ ~last'.raised
             /\ db' = [db EXCEPT ![last'.session_id] = last'.after]]_vars

\* C22 witness: a continue turn on a stored session has been abandoned while
\* it was suspended.
C22_Witness ==
    /\ last.op = "abandon" /\ last.call = "continue"
    /\ Stored(last.session_id)

\* The record a continue turn computes from the record it loaded, its text,
\* and the replies of the service.
TurnOutcomes(session_data, user_query, up) ==
    {SaveSessionState(HandleUserInput(LoadSessionState(session_data, user_query),
                                      user_query, up, reply)) :
        reply \in ScoreReplies}

\* C23: turns on different sessions are independent: a call loads the record
\* of its own session, a step changes only the record of the session whose
\* call it ends, and the record it writes is the one that turn computes from
\* what it loaded, whatever happens on the other session in between.
C23_SessionsIndependent ==
    [][/\ \A w \in Callers :
             (pc[w] = "idle" /\ pc'[w] = "continuing")
                 => local'[w].session_data = db[local'[w].session_id]
       /\ \A s \in Sessions :
             db'[s] # db[s]
                 => /\ nops' # nops
                    /\ last'.op = "continue" /\ last'.session_id = s
                    /\ db'[s] \in TurnOutcomes(last'.before, last'.user_query, last'.up)]_vars

\* C23 witness: a turn on one session has saved after the other session was
\* changed, and the other session's record is untouched by it.
C23_Witness ==
    /\ Turn /\ last.saved
    /\ db[last.session_id] = last.after
    /\ \E s \in Sessions \ {last.session_id} :
          /\ db[s] # SaveSessionState(RunGraph(InitialState(db[s].topic), TRUE))
          /\ db[s].topic # db[last.session_id].topic

\* What the continue call that completed last computes from the same record
\* and text when the Generation Service answers (with a reply that holds no
\* score).
WithServiceUp ==
    HandleUserInput(LoadSessionState(last.before, last.user_query),
                    last.user_query, TRUE, <<"x">>)

\* A generated text, as the fallback of a failed generation call replaces it.
Degraded(text) == IF text = "generated" THEN FallbackMessage ELSE text

C25_FailedWriteKeepsProgress ==
    [][(/\ nops' # nops
        /\ \A w \in Callers : pc[w] = "idle"
        /\ last.op = "continue" /\ last.found /\ ~last.raised /\ ~last.saved
        /\ last'.op = "continue" /\ last'.found
        /\ last'.session_id = last.session_id)
           => last'.before = last.after]_vars

\* C26: on the streaming channel the terminal frame ends the connection: no
\* inbound frame is processed after a terminal frame was sent, and no
\* connection has sent a second terminal frame.
C26_TerminalFrameCloses ==
    /\ last.op = "frame" => last.terminal_before = 0
    /\ \A w \in Callers : pc[w] = "open" => local[w].terminal_frames <= 1

\* C27: the response to starting a session reports an interaction count of
\* 0, and that count is the total_interactions stored for the new session.
C27_StartReportsZero ==
    (Started /\ last.saved)
        => /\ StartResponse(last.result).conversation_count = 0
           /\ StartResponse(last.result).conversation_count
                 = last.after.total_interactions

\* C28: in the auto-quiz flow a turn starts a quiz exactly when the count of
\* interactions is a multiple of quiz_frequency and greater than 2, no quiz
\* is in progress, and a concept has been covered; quiz_frequency is within
\* [MIN_CONVERSATIONS, MAX_CONVERSATIONS]; no quiz starts during a quiz.
C28_QuizTrigger ==
    [][last'.conversation_count # last.conversation_count
         => /\ last'.quiz_frequency \in MinConversations..MaxConversations
            /\ (last'.quizzes = last.quizzes + 1)
                 <=> /\ last'.conversation_count % last'.quiz_frequency = 0
                     /\ last'.conversation_count > 2
                     /\ last.stage # "quiz"
                     /\ last'.covered
            /\ last'.quizzes \in {last.quizzes, last.quizzes + 1}
            /\ last.stage = "quiz"
                 => last'.quizzes = last.quizzes /\ last'.stage = "quiz"
            /\ (last'.stage = "quiz" /\ last.stage # "quiz")
                 <=> last'.quizzes = last.quizzes + 1]_vars

\* C28 witness: a turn whose count is a multiple of quiz_frequency, with a
\* concept covered, has passed during a quiz without starting another.
C28_Witness ==
    /\ last.op = "quiz_flow" /\ last.quizzes = 1
    /\ last.stage = "quiz" /\ ~last.triggered /\ last.covered
    /\ last.conversation_count = 2 * last.quiz_frequency

\* C29: while waiting_for_answer is true, a reply of at most 5 words is
\* routed to answer evaluation and never to the question interruption, even
\* when it contains a question indicator.
C29_ShortReplyIsAnAnswer ==
    (/\ Turn /\ last.before.waiting_for_answer
     /\ last.user_query.present /\ last.user_query.words <= 5)
        => /\ "side_question" \notin last.trace
           /\ "scored" \in last.trace
           /\ Len(last.after.concept_scores) = Len(last.before.concept_scores) + 1

\* C29 witness: a reply of exactly 5 words with a question indicator was
\* given to a pending check question, and was scored.
C29_Witness ==
    /\ Turn /\ last.before.waiting_for_answer
    /\ last.user_query = ShortQuestion
    /\ "scored" \in last.trace

\* C30: the explanation step counter stays within its range: in every stored
\* record current_message_step is between 0 and one more than the 3 steps
\* of an explanation (the value at the moment the question is asked).
C30_StepCounterInRange ==
    \A s \in Sessions :
        Stored(s) => db[s].current_message_step \in 0..ExplanationSteps + 1

\* The explanations the compiled graph produces for the sub-topic under the
\* cursor: _start_concept_explanation, then continue_explanation for as long
\* as _route_explanation says so.
RECURSIVE ExplainByRoute(_, _)
ExplainByRoute(state, count) ==
    IF RouteExplanation(state) = "continue_explanation" /\ count <= ExplanationSteps
    THEN ExplainByRoute(ContinueExplanation(state, TRUE), count + 1)
    ELSE count

GraphExplanations(state) == ExplainByRoute(StartConceptExplanation(state, TRUE), 1)

\* C31: a sub-topic gets exactly 3 explanations before its check question
\* on both paths: a check question asked by a continue turn follows as many
\* explanation turns as the compiled graph gives the sub-topic explanations.
C31_PathsAgreeOnExplanations ==
    (Turn /\ "asked" \in last.trace)
        => /\ GraphExplanations(LoadSessionState(last.before, NoText)) = ExplanationSteps
           /\ last.explained_before
                = GraphExplanations(LoadSessionState(last.before, NoText))

\* C32: stage and waiting_for_answer are never contradictory in a stored
\* record: the stage is question exactly when waiting_for_answer is true, and
\* a complete session has stage complete and is not waiting for an answer.
C32_StageAgreesWithWaiting ==
    \A s \in Sessions :
        Stored(s)
            => /\ (db[s].stage = "question") <=> db[s].waiting_for_answer
               /\ db[s].session_complete
                    => (db[s].stage = "complete" /\ ~db[s].waiting_for_answer)

\* C33: a turn that gives feedback on sub-topic i moves the cursor to i+1;
\* after the last sub-topic the session is complete with the cursor at the
\* number of sub-topics, otherwise the explanation step starts over and the
\* stage is learning.
C33_FeedbackAdvancesCursor ==
    (Turn /\ "feedback" \in last.trace)
        => LET i == last.before.current_subtopic_index
               n == Len(ListSubtopics(last.before.topic))
           IN /\ last.after.current_subtopic_index = i + 1
              /\ IF i = n - 1
                 THEN /\ last.after.session_complete
                      /\ last.after.current_subtopic_index = n
                 ELSE /\ last.after.stage = "learning"
                      /\ last.after.current_message_step <= 1

\* C34: when the feedback step is reached and there is no score record (a
\* turn without text on a pending check question that was never answered),
\* it counts as an evaluation of 0.0: a score of 0.0 is recorded, the concept
\* is not marked learned, feedback is produced, and the call does not raise.
C34_MissingScoreCountsAsZero ==
    (/\ last.op = "continue" /\ last.found
     /\ last.before.waiting_for_answer /\ Truthy(last.before.current_question)
     /\ ~last.user_query.present
     /\ last.before.concept_scores = <<>>)
        => /\ ~last.raised
           /\ last.after.concept_scores = <<0>>
           /\ last.after.concepts_learned = last.before.concepts_learned
           /\ "feedback" \in last.trace

C36_QuestionCheckComesFirst ==
    /\ (/\ Turn /\ last.before.waiting_for_answer
        /\ last.user_query.present
        /\ last.user_query.words > 5 /\ last.user_query.indicator)
          => /\ "side_question" \in last.trace
             /\ "scored" \notin last.trace
             /\ last.after.concept_scores = last.before.concept_scores
             /\ last.after.waiting_for_answer = last.before.waiting_for_answer
             /\ last.after.current_question = last.before.current_question
    /\ (Turn /\ "scored" \in last.trace)
          => /\ last.user_query.present
             /\ last.user_query.words <= 5 \/ ~last.user_query.indicator

\* C36 witness: a 6-word question interrupted a pending check question,
\* which is still pending after the turn.
C36_Witness ==
    /\ Turn /\ last.saved
    /\ last.before.waiting_for_answer /\ Truthy(last.before.current_question)
    /\ last.user_query = LongQuestion
    /\ "side_question" \in last.trace
    /\ db[last.session_id].waiting_for_answer

\* C37: progress: when the user never sends a text classified as a question,
\* a stored session reaches session_complete = true after finitely many
\* continue turns, whether the turns carry answers or no text.
C37_SessionCompletes ==
    \A s \in Sessions : [](Stored(s) => <>(Stored(s) /\ db[s].session_complete))

\* C37 witness: after turns with an answer and without text, none of them a
\* question, the stored session is complete.
C37_Witness ==
    /\ Turn /\ last.saved /\ ~last.user_query.present
    /\ Len(last.before.concept_scores) > 0
    /\ db[last.session_id].session_complete

\* C38: a question-interruption turn changes only total_interactions, by one,
\* and the stage: the cursor, the explanation step, waiting_for_answer,
\* current_question, the scores, the learned concepts and session_complete
\* are as they were.
C38_QuestionTurnFrame ==
    (Turn /\ "side_question" \in last.trace)
        => /\ last.after.total_interactions = last.before.total_interactions + 1
           /\ [last.after EXCEPT !.total_interactions = 0, !.stage = "learning"]
                = [last.before EXCEPT !.total_interactions = 0, !.stage = "learning"]
           /\ last.trace = {"side_question"}

\* C38 witness: a question turn on a session that is complete, has a score
\* and a pending check question left all of that as it was, and was saved.
C38_Witness ==
    /\ Turn /\ last.saved
    /\ "side_question" \in last.trace
    /\ last.before.session_complete
    /\ last.before.stage # "learning"
    /\ db[last.session_id].stage = "learning"
    /\ db[last.session_id].session_complete

\* C39: a continue turn without text on a pending check question does not
\* skip the question: the cursor, waiting_for_answer, current_question, the
\* scores and the learned concepts are as they were, and no feedback is
\* produced from the score of an earlier answer.
C39_NoTextKeepsQuestion ==
    (/\ Turn /\ ~last.user_query.present
     /\ last.before.waiting_for_answer /\ Truthy(last.before.current_question))
        => /\ last.after.current_subtopic_index = last.before.current_subtopic_index
           /\ last.after.waiting_for_answer
           /\ last.after.current_question = last.before.current_question
           /\ last.after.concept_scores = last.before.concept_scores
           /\ last.after.concepts_learned = last.before.concepts_learned
           /\ "feedback" \notin last.trace

\* C40: the stage written to the Session Store is always learning, question
\* or complete: intro, feedback, user_question and error are never stored.
C40_StoredStages ==
    \A s \in Sessions :
        Stored(s) => db[s].stage \in {"learning", "question", "complete"}

\* C40 witness: each of the three stages has been stored: complete by the
\* start, then learning by a question turn and question by the turn after it.
C40_Witness ==
    /\ Turn /\ last.saved
    /\ last.before.stage = "learning"
    /\ db[last.session_id].stage = "question"
    /\ db[last.session_id].session_complete

====
